---- MODULE Spec2Model ----
(***************************************************************************)
(* Model of the voice-cloner workflow controller (src/src/orchestrator.py) *)
(* and of the conversion cascade (src/src/modules/voice_inference.py).     *)
(*                                                                         *)
(* Spec         the orchestrator object: its workflow_state flags, its     *)
(*              inference field and the result of the last phase call.     *)
(*              Collaborators are summarised by the value they return.     *)
(* SpecCascade  one VoiceInference object, convert_voice called directly   *)
(*              on source buffers of several lengths.                      *)
(* SpecBatch    one VoiceInference object, batch_convert over a directory. *)
(* SpecSegment  AudioPreprocessor.segment_and_denoise_audio on one buffer. *)
(* SpecPipeline AudioPreprocessor.run_preprocessing_pipeline, file by file.*)
(* SpecProfile  SpeakerProfileExtractor.extract_from_directory.            *)
(* SpecDsp      the stage sequences of the three DSP converters and the    *)
(*              loudness scale of AdvancedGreggConverter.convert_voice.    *)
(* SpecRequests convert_voice calls of several callers, interleaved at the *)
(*              file operations of the toolkit strategy.                   *)
(***************************************************************************)
EXTENDS Integers, Sequences, FiniteSets, TLC

VARIABLES workflow_state, inference, call, succeeded,
          files, temp_file, conv, batch,
          seg, pipeline, extractor,
          dsp, requests

vars == <<workflow_state, inference, call, succeeded, files, temp_file, conv, batch,
          seg, pipeline, extractor, dsp, requests>>

orchVars == <<workflow_state, inference, call, succeeded>>
cascadeVars == <<files, temp_file, conv, batch>>
prepVars == <<seg, pipeline, extractor>>
dspVars == <<dsp, requests>>

---------------------------------------------------------------------------
(* Bounds *)

\* RMS levels run up to 2 * 10^MaxRmsExp units of 1e-8
MaxRmsExp == 7

\* number of convert_voice calls in flight at once
MaxRequests == 2

\* number of distinct file names in an input / output directory
MaxFiles == 2

\* source buffers hold q*HOP_LENGTH + r samples, q in 1..MaxHops, r in 0..1
MaxHops == 1

\* a training buffer is at most MaxRuns stretches of one level each
MaxRuns == 2

\* a stretch is at most MaxChunks times MAX_DURATION long, plus a remainder
MaxChunks == 3

\* the long take of the pipeline lasts LongChunks times MAX_DURATION and a bit
LongChunks == 10

---------------------------------------------------------------------------
(* Program constants *)

\* hop_length of the mel spectrogram of the neural converter
HOP_LENGTH == 512

SrcLens == { q * HOP_LENGTH + r : q \in 1..MaxHops, r \in 0..1 }

PitchShifts == {-7, 0}

\* f0_method values a caller may pass: the default, another allowed one and
\* one that is not allowed
F0Methods == {"crepe", "harvest", "pm"}

\* valid_methods of convert_voice
valid_methods == {"crepe", "dio", "harvest"}

\* a validation that hands the caller's value on
ValidateF0Passthrough(f0) == f0

\* if f0_method not in valid_methods: warning, f0_method = "crepe"
ValidateF0(f0) == IF f0 \in valid_methods THEN f0 ELSE "crepe"

Paths == 1..MaxFiles

---------------------------------------------------------------------------
(* Audio buffers: who produced them, how many samples, what they hold *)

NoAudio == [by |-> "none", len |-> 0, content |-> "none"]

\* an exception travelling up to the enclosing handler
Raise == [by |-> "raise", len |-> 0, content |-> "none"]

Audio(by, len, content) == [by |-> by, len |-> len, content |-> content]

Strategies == <<"LearnedConverter", "ProfileConverter", "ExternalToolkitAdapter", "SimulationConverter">>

Rank(s) == CHOOSE i \in 1..Len(Strategies) : Strategies[i] = s

---------------------------------------------------------------------------
(* VoiceInference.__init__ *)

\* what the constructor finds on disk and how its helpers fare
InitEnvs ==
  [ hasWavs : BOOLEAN,        \* data/wavs exists and holds *.wav
    trainOk : BOOLEAN,        \* train_voice_converter returns
    profileExists : BOOLEAN,  \* speaker_profile.json exists
    profileLoadOk : BOOLEAN,  \* json.load succeeds
    createOk : BOOLEAN,       \* profile extraction and save succeed
    modelOk : BOOLEAN,        \* model_path given and existing
    configOk : BOOLEAN,       \* config.json next to the checkpoints
    wrapperOk : BOOLEAN ]     \* create_sovits_wrapper returns a wrapper

NoInference ==
  [ constructed |-> FALSE, use_neural_converter |-> FALSE,
    use_speaker_profile |-> FALSE, sovits_wrapper |-> FALSE,
    profile_on_disk |-> FALSE ]

VoiceInferenceInit(e) ==
  LET neural == e.hasWavs /\ e.trainOk
      profile == IF e.profileExists /\ ~neural
                 THEN e.profileLoadOk
                 ELSE IF e.hasWavs /\ ~neural
                      THEN e.createOk
                      ELSE FALSE
      sovits == e.modelOk /\ e.configOk /\ e.wrapperOk
  IN [ constructed |-> TRUE, use_neural_converter |-> neural,
       use_speaker_profile |-> profile, sovits_wrapper |-> sovits,
       \* a readable speaker_profile.json lies in the working directory
       \* when the constructor returns: found there, or just saved
       profile_on_disk |-> (e.profileExists /\ e.profileLoadOk) \/ profile ]

Inferences == { VoiceInferenceInit(e) : e \in InitEnvs }

Available(inf, s) ==
  CASE s = "LearnedConverter" -> inf.use_neural_converter
    [] s = "ProfileConverter" -> inf.use_speaker_profile
    [] s = "ExternalToolkitAdapter" -> inf.sovits_wrapper
    [] s = "SimulationConverter" -> TRUE

---------------------------------------------------------------------------
(* The strategies, by what they return for a source buffer of n samples *)

\* _audio_to_mel: centred frames, one per hop
MelFrames(n) == 1 + (n \div HOP_LENGTH)

\* _mel_to_audio: Griffin-Lim inverse, hop * (frames - 1) samples
MelToAudioLen(frames) == HOP_LENGTH * (frames - 1)

\* NeuralVoiceConverter.convert_voice
neural_convert_voice(n, outcome) ==
  IF outcome = "throw" THEN Raise
  ELSE Audio("LearnedConverter", MelToAudioLen(MelFrames(n)), "converted")

\* apply_speaker_profile_conversion: pitch shift and filters keep the length
apply_speaker_profile_conversion(n, outcome) ==
  IF outcome = "throw" THEN Raise
  ELSE Audio("ProfileConverter", n, "converted")

\* the simulation, had the filter stage no handler of its own
create_realistic_voice_conversionUnguarded(n, pitch) ==
  IF pitch # 0 THEN Raise ELSE Audio("SimulationConverter", n, "converted")

\* create_realistic_voice_conversion: never None, never raises
create_realistic_voice_conversion(n, pitch) ==
  Audio("SimulationConverter", n, "converted")

\* SOVitsSVCWrapper.convert on a loaded wrapper
sovits_convert(n, o) ==
  CASE o.r = "ok" -> Audio("ExternalToolkitAdapter", n + o.delta, "converted")
    [] o.r = "none" -> NoAudio
    [] o.r = "infer_throw" -> Audio("ExternalToolkitAdapter", n, "source")
    [] OTHER -> Raise

---------------------------------------------------------------------------
(* VoiceInference.convert_voice *)

\* outcomes the environment can give each strategy the object has
NeuralOutcomes(inf) == IF inf.use_neural_converter THEN {"ok", "throw"} ELSE {"unused"}

ProfileOutcomes(inf) == IF inf.use_speaker_profile THEN {"ok", "throw"} ELSE {"unused"}

\* the toolkit's inference returns a buffer of its own length (the source
\* length plus delta), returns None or raises; the temporary file may fail
\* to be written, and convert may raise past its own handler
Unused == [r |-> "unused", delta |-> 0]

SovitsOutcomes(inf) ==
  IF inf.sovits_wrapper
  THEN { [r |-> "ok", delta |-> d] : d \in 0..1 }
       \cup { [r |-> x, delta |-> 0] : x \in {"none", "infer_throw", "convert_throw", "save_throw"} }
  ELSE { Unused }

\* a strategy that is never reached has no outcome
Reached(c) ==
  /\ (c.neural = "ok" => c.profile = "unused" /\ c.sovits = Unused)
  /\ (c.profile = "ok" => c.sovits = Unused)

Chains(inf) ==
  { c \in [ neural : NeuralOutcomes(inf),
            profile : ProfileOutcomes(inf) \cup {"unused"},
            sovits : SovitsOutcomes(inf) \cup {Unused} ] :
      /\ Reached(c)
      /\ (c.neural # "ok" => c.profile \in ProfileOutcomes(inf))
      /\ (c.neural # "ok" /\ c.profile # "ok" => c.sovits \in SovitsOutcomes(inf)) }

NoChain == [neural |-> "unused", profile |-> "unused", sovits |-> Unused]

\* the input file: missing, undecodable, or decoded to len samples
Loaded(lens) == { [state |-> "loaded", len |-> n] : n \in lens }

Missing == [state |-> "missing", len |-> 0]

Unreadable == [state |-> "unreadable", len |-> 0]

AllInputs == {Missing, Unreadable} \cup Loaded(SrcLens)

\* a file that glob has just listed exists
GlobbedInputs == {Unreadable} \cup Loaded(SrcLens)

\* one call's environment: the input, the request, how each strategy that
\* is reached fares, and whether the output can be written
ConvEnvs(inf, inputs, outs) ==
  { [input |-> i, pitch |-> p, f0 |-> f, out |-> o, chain |-> NoChain, writeOk |-> TRUE] :
      i \in inputs \cap {Missing, Unreadable}, p \in PitchShifts, f \in F0Methods, o \in outs }
  \cup
  { [input |-> i, pitch |-> p, f0 |-> f, out |-> o, chain |-> c, writeOk |-> w] :
      i \in inputs \ {Missing, Unreadable}, p \in PitchShifts, f \in F0Methods, o \in outs,
      c \in Chains(inf), w \in BOOLEAN }

Outcome(r) == IF r = Raise THEN "throw" ELSE IF r = NoAudio THEN "null" ELSE "ok"

\* one attempt: the strategy, what the cascade got back from it, and
\* whether an exception was raised inside it
Attempt(s, r, exc) == [strategy |-> s, outcome |-> Outcome(r), exception |-> exc]

LogLine(s, m) == [name |-> s, msg |-> m]

\* the message logged after a strategy's call: [OK] or [WARNING] ... failed
ResultLine(s, r) == LogLine(s, IF r = Raise THEN "failed" ELSE "ok")

\* a strategy called with an f0_method argument
Received(s, f0) == [strategy |-> s, f0 |-> f0]

\* except Exception: converted_audio = None
Try(r) == IF r = Raise THEN NoAudio ELSE r

\* Priority 1: neural voice converter
Priority1(inf, e) ==
  IF inf.use_neural_converter
  THEN LET r == neural_convert_voice(e.input.len, e.chain.neural)
       IN [ audio |-> Try(r),
            attempts |-> << Attempt("LearnedConverter", r, r = Raise) >>,
            log |-> << LogLine("LearnedConverter", "using"), ResultLine("LearnedConverter", r) >>,
            temp |-> "untouched", received |-> << >> ]
  ELSE [ audio |-> NoAudio, attempts |-> << >>, log |-> << >>, temp |-> "untouched",
         received |-> << >> ]

\* Priority 2: speaker profile
Priority2(inf, e, s) ==
  IF s.audio = NoAudio /\ inf.use_speaker_profile
  THEN LET r == apply_speaker_profile_conversion(e.input.len, e.chain.profile)
       IN [ s EXCEPT !.audio = Try(r),
                     !.attempts = @ \o << Attempt("ProfileConverter", r, r = Raise) >>,
                     !.log = @ \o << LogLine("ProfileConverter", "using"),
                                     ResultLine("ProfileConverter", r) >> ]
  ELSE s

\* an exception inside the adapter: one that reaches the cascade, or one
\* of the toolkit's inference that the wrapper answers with the source audio
InferenceRaised(e, r0) == r0 = Raise \/ e.chain.sovits.r = "infer_throw"

\* Priority 3 entered whatever the earlier strategies returned
Priority3Always(inf, e, s) ==
  IF inf.sovits_wrapper
  THEN LET r0 == IF e.chain.sovits.r = "save_throw" THEN Raise
                 ELSE sovits_convert(e.input.len, e.chain.sovits)
       IN [ audio |-> Try(r0),
            attempts |-> s.attempts
                         \o << Attempt("ExternalToolkitAdapter", r0, InferenceRaised(e, r0)) >>,
            log |-> s.log \o << LogLine("ExternalToolkitAdapter", "using"),
                                ResultLine("ExternalToolkitAdapter", r0) >>,
            temp |-> "removed",
            received |-> s.received \o << Received("ExternalToolkitAdapter", e.f0) >> ]
  ELSE s

\* Priority 3: SO-VITS-SVC through a temporary file, simulation when it
\* returns None
Priority3(inf, e, s) ==
  IF s.audio = NoAudio /\ inf.sovits_wrapper
  THEN LET r0 == IF e.chain.sovits.r = "save_throw" THEN Raise
                 ELSE sovits_convert(e.input.len, e.chain.sovits)
           nested == (r0 = NoAudio)
           r == IF nested
                THEN create_realistic_voice_conversion(e.input.len, e.pitch)
                ELSE r0
       IN [ audio |-> Try(r),
            attempts |-> s.attempts
                         \o << Attempt("ExternalToolkitAdapter", r0, InferenceRaised(e, r0)) >>
                         \o (IF nested THEN << Attempt("SimulationConverter", r, r = Raise) >> ELSE << >>),
            log |-> s.log
                    \o << LogLine("ExternalToolkitAdapter", "using") >>
                    \o (IF nested
                        THEN << LogLine("ExternalToolkitAdapter", "returned_none"),
                                LogLine("SimulationConverter", "using") >>
                        ELSE << ResultLine("ExternalToolkitAdapter", r0) >>),
            temp |-> CASE e.chain.sovits.r = "save_throw" -> "untouched"
                       [] e.chain.sovits.r = "convert_throw" -> "left"
                       [] OTHER -> "removed",
            received |-> s.received
                         \o (IF e.chain.sovits.r = "save_throw" THEN << >>
                             ELSE << Received("ExternalToolkitAdapter", e.f0) >>)
                         \o (IF nested THEN << Received("SimulationConverter", e.f0) >> ELSE << >>) ]
  ELSE s

\* Priority 4: simulation, outside any inner handler
Priority4(inf, e, s) ==
  IF s.audio = NoAudio
  THEN LET r == create_realistic_voice_conversion(e.input.len, e.pitch)
       IN [ s EXCEPT !.audio = r,
                     !.attempts = @ \o << Attempt("SimulationConverter", r, r = Raise) >>,
                     !.log = @ \o << LogLine("SimulationConverter", "using") >>,
                     !.received = @ \o << Received("SimulationConverter", e.f0) >> ]
  ELSE s

Cascade(inf, e) == Priority4(inf, e, Priority3(inf, e, Priority2(inf, e, Priority1(inf, e))))

\* save_output_audio: any error is logged and turned into False
save_output_audio(audio, writeOk) == audio # NoAudio /\ audio # Raise /\ writeOk

\* what convert_voice returns once save_output_audio has returned
ReturnAfterSave(saveRet) == TRUE

NoCascade ==
  [ audio |-> NoAudio, attempts |-> << >>, log |-> << >>, temp |-> "untouched",
    received |-> << >> ]

\* the whole call: result, effects and what was logged
ConvertVoice(inf, e) ==
  IF e.input.state # "loaded"
  THEN [ ret |-> FALSE, raised |-> FALSE, reached |-> FALSE, saveCalled |-> FALSE,
         cascade |-> NoCascade, wrote |-> FALSE, warned |-> FALSE ]
  ELSE LET c == Cascade(inf, [e EXCEPT !.f0 = ValidateF0(e.f0)])
           saveRet == save_output_audio(c.audio, e.writeOk)
       IN [ ret |-> IF c.audio = Raise THEN FALSE ELSE ReturnAfterSave(saveRet),
            raised |-> FALSE, reached |-> TRUE,
            saveCalled |-> (c.audio # Raise),
            cascade |-> c, wrote |-> IF c.audio = Raise THEN FALSE ELSE saveRet,
            warned |-> (e.f0 \notin valid_methods) ]

\* the return values convert_voice can give on this object
PossibleRets(inf, inputs) ==
  { ConvertVoice(inf, e).ret : e \in ConvEnvs(inf, inputs, Paths) }

\* ... by run_phase_5_voice_inference, on any input path
Phase5Rets == [inf \in Inferences |-> PossibleRets(inf, AllInputs)]

\* ... by batch_convert, on a file of the directory
BatchFileRets == [inf \in Inferences |-> PossibleRets(inf, GlobbedInputs)]

---------------------------------------------------------------------------
(* VoiceInference.batch_convert: what it returns *)

\* a batch that succeeds as soon as one file does
BatchReturnAnySuccess(successful, failed) == successful > 0

\* return failed == 0
BatchReturn(successful, failed) == failed = 0

RECURSIVE CountOf(_, _)
CountOf(seq, x) ==
  IF seq = << >> THEN 0
  ELSE (IF seq[1] = x THEN 1 ELSE 0) + CountOf(Tail(seq), x)

\* batch_convert on a directory whose files give the returns rets, in order
BatchConvertRet(mkdirOk, rets) ==
  IF ~mkdirOk THEN FALSE
  ELSE IF rets = << >> THEN FALSE
  ELSE BatchReturn(CountOf(rets, TRUE), CountOf(rets, FALSE))

---------------------------------------------------------------------------
(* VoiceClonerOrchestrator *)

Flags == {"env_detected", "env_setup", "audio_processed", "model_trained", "ready_for_inference"}

FlagOrder == <<"env_detected", "env_setup", "audio_processed", "model_trained", "ready_for_inference">>

\* a constructor that starts with the environment marked as detected
InitWorkflowStateDetected == [f \in Flags |-> f = "env_detected"]

\* __init__: self.workflow_state
InitWorkflowState == [f \in Flags |-> FALSE]

NoCall == [op |-> "none", ret |-> FALSE, raised |-> FALSE, pre |-> InitWorkflowState, invoked |-> << >>]

\* an assignment that rebuilds the dictionary around the assigned flags
SetFlagsRebuild(ws, fs, success) == [f \in Flags |-> IF f \in fs THEN success ELSE FALSE]

\* self.workflow_state[f] = success, for the flags a phase assigns
SetFlags(ws, fs, success) == [f \in Flags |-> IF f \in fs THEN success ELSE ws[f]]

\* the flags each phase assigns
Phase1Flags == {"env_detected"}
Phase2Flags == {"env_setup"}
Phase3Flags == {"audio_processed"}
Phase4Flags == {"model_trained", "ready_for_inference"}

\* a conversion that stores its result in ready_for_inference
ConversionFlagsReady == {"ready_for_inference"}

\* run_phase_5_voice_inference and batch_inference assign no flag
ConversionFlags == {}

\* a phase with no precondition check
GuardMissing(ws, flag) == TRUE

\* if not self.workflow_state[flag]: ... return False
Guard(ws, flag) == ws[flag]

CallRecord(op, ret, invoked) ==
  [op |-> op, ret |-> ret, raised |-> FALSE, pre |-> workflow_state, invoked |-> invoked]

\* a rejection that starts the workflow over
RejectReset(op) ==
  /\ call' = CallRecord(op, FALSE, << >>)
  /\ workflow_state' = InitWorkflowState
  /\ UNCHANGED <<inference, succeeded>>

Reject(op) ==
  /\ call' = CallRecord(op, FALSE, << >>)
  /\ UNCHANGED <<workflow_state, inference, succeeded>>

Record(op, ret) == succeeded' = IF ret THEN succeeded \cup {op} ELSE succeeded

run_phase_1_environment_detection ==
  /\ \E success \in BOOLEAN :
       /\ workflow_state' = SetFlags(workflow_state, Phase1Flags, success)
       /\ call' = CallRecord("phase1", success,
                     << "detector.run_all_checks" >>
                     \o (IF success THEN << "detector.get_report" >> ELSE << >>))
       /\ Record("phase1", success)
  /\ UNCHANGED inference
  /\ UNCHANGED cascadeVars
  /\ UNCHANGED prepVars
  /\ UNCHANGED dspVars

run_phase_2_environment_setup ==
  /\ IF ~Guard(workflow_state, "env_detected")
     THEN Reject("phase2")
     ELSE \E success \in BOOLEAN :
            /\ workflow_state' = SetFlags(workflow_state, Phase2Flags, success)
            /\ call' = CallRecord("phase2", success,
                          << "setup.run_complete_setup" >>
                          \o (IF success THEN << "setup.get_environment_info" >> ELSE << >>))
            /\ Record("phase2", success)
            /\ UNCHANGED inference
  /\ UNCHANGED cascadeVars
  /\ UNCHANGED prepVars
  /\ UNCHANGED dspVars

run_phase_3_audio_preprocessing ==
  /\ IF ~Guard(workflow_state, "env_setup")
     THEN Reject("phase3")
     ELSE \E success \in BOOLEAN :
            /\ workflow_state' = SetFlags(workflow_state, Phase3Flags, success)
            /\ call' = CallRecord("phase3", success,
                          << "preprocessor.run_preprocessing_pipeline" >>
                          \o (IF success THEN << "preprocessor.get_preprocessing_stats" >> ELSE << >>))
            /\ Record("phase3", success)
            /\ UNCHANGED inference
  /\ UNCHANGED cascadeVars
  /\ UNCHANGED prepVars
  /\ UNCHANGED dspVars

run_phase_4_model_training ==
  /\ IF ~Guard(workflow_state, "audio_processed")
     THEN Reject("phase4")
     ELSE \E configOk \in BOOLEAN, success \in BOOLEAN :
            IF ~configOk
            THEN /\ call' = CallRecord("phase4", FALSE, << "trainer.generate_training_config" >>)
                 /\ UNCHANGED <<workflow_state, inference, succeeded>>
            ELSE /\ workflow_state' = SetFlags(workflow_state, Phase4Flags, success)
                 /\ call' = CallRecord("phase4", success,
                               << "trainer.generate_training_config",
                                  "preprocessor.get_preprocessing_stats",
                                  "trainer.estimate_training_time",
                                  "trainer.start_training" >>)
                 /\ Record("phase4", success)
                 /\ UNCHANGED inference
  /\ UNCHANGED cascadeVars
  /\ UNCHANGED prepVars
  /\ UNCHANGED dspVars

run_phase_5_voice_inference ==
  /\ IF ~Guard(workflow_state, "ready_for_inference")
     THEN Reject("phase5")
     ELSE \E inf \in Inferences :
            \E ret \in Phase5Rets[inf] :
              /\ inference' = inf
              /\ call' = CallRecord("phase5", ret,
                            << "VoiceInference", "inference.convert_voice" >>
                            \o (IF ret THEN << "inference.print_fl_studio_guide" >> ELSE << >>))
              /\ Record("phase5", ret)
              /\ workflow_state' = SetFlags(workflow_state, ConversionFlags, ret)
  /\ UNCHANGED cascadeVars
  /\ UNCHANGED prepVars
  /\ UNCHANGED dspVars

batch_inference ==
  /\ IF ~Guard(workflow_state, "ready_for_inference")
     THEN Reject("batch")
     ELSE \E inf \in Inferences, mkdirOk \in BOOLEAN, n \in 0..MaxFiles :
            \E rets \in [1..n -> BatchFileRets[inf]] :
              LET ret == BatchConvertRet(mkdirOk, rets)
              IN /\ inference' = inf
                 /\ call' = CallRecord("batch", ret,
                               << "VoiceInference", "inference.batch_convert" >>)
                 /\ Record("batch", ret)
                 /\ workflow_state' = SetFlags(workflow_state, ConversionFlags, ret)
  /\ UNCHANGED cascadeVars
  /\ UNCHANGED prepVars
  /\ UNCHANGED dspVars

---------------------------------------------------------------------------
(* VoiceInference: convert_voice and batch_convert as calls on one object *)

\* what an output file holds: who produced it and whether it was converted
FileOf(audio) == [by |-> audio.by, content |-> audio.content]

NoFile == FileOf(NoAudio)

NoConv ==
  [ op |-> "none", input |-> Missing, pitch |-> 0, f0 |-> "crepe", out |-> 1,
    ret |-> FALSE, raised |-> FALSE, reached |-> FALSE, saveCalled |-> FALSE,
    wrote |-> FALSE, attempts |-> << >>, log |-> << >>, saved |-> NoAudio,
    warned |-> FALSE, received |-> << >> ]

NoBatch ==
  [ pc |-> "idle", audio_files |-> << >>, idx |-> 0, successful |-> 0, failed |-> 0,
    log |-> << >>, wrote |-> << >>, ret |-> FALSE ]

\* the record of one convert_voice call
ConvRecord(e, r) ==
  [ op |-> "convert_voice", input |-> e.input, pitch |-> e.pitch, f0 |-> e.f0, out |-> e.out,
    ret |-> r.ret, raised |-> r.raised, reached |-> r.reached,
    saveCalled |-> r.saveCalled, wrote |-> r.wrote,
    attempts |-> r.cascade.attempts, log |-> r.cascade.log,
    saved |-> IF r.saveCalled THEN r.cascade.audio ELSE NoAudio,
    warned |-> r.warned, received |-> r.cascade.received ]

\* the effects of one convert_voice call on the disk
ConvertEffects(e, r) ==
  /\ files' = IF r.wrote THEN [files EXCEPT ![e.out] = FileOf(r.cascade.audio)] ELSE files
  /\ temp_file' = CASE r.cascade.temp = "left" -> TRUE
                    [] r.cascade.temp = "removed" -> FALSE
                    [] OTHER -> temp_file

\* the output path of the direct calls
DirectOut == CHOOSE p \in Paths : \A q \in Paths : p <= q

convert_voice ==
  /\ \E e \in ConvEnvs(inference, AllInputs, {DirectOut}) :
       \E r \in {ConvertVoice(inference, e)} :
         /\ conv' = ConvRecord(e, r)
         /\ ConvertEffects(e, r)
  /\ UNCHANGED batch
  /\ UNCHANGED orchVars
  /\ UNCHANGED prepVars
  /\ UNCHANGED dspVars

RECURSIVE SetToSeq(_)
SetToSeq(S) ==
  IF S = {} THEN << >>
  ELSE LET m == CHOOSE x \in S : \A y \in S : x <= y
       IN << m >> \o SetToSeq(S \ {m})

\* the source buffers of the files of a batch
BatchLens == {HOP_LENGTH + 1}

BatchInputs == {Unreadable} \cup Loaded(BatchLens)

\* supported_formats, the first two of them
supported_formats == << ".wav", ".mp3" >>

\* the files an input directory can hold: a stem and a format
DirFiles == [stem : Paths, fmt : 1..Len(supported_formats)]

\* the directories of at most MaxFiles audio files
Listings == { S \in SUBSET DirFiles : Cardinality(S) <= MaxFiles }

FileKey(f) == (f.fmt - 1) * MaxFiles + f.stem

FileOfKey(k) == [stem |-> ((k - 1) % MaxFiles) + 1, fmt |-> ((k - 1) \div MaxFiles) + 1]

\* input_dir.glob of one pattern: the files of the format, which carry the
\* lower-case suffix; the upper-case pattern matches them too where pathlib
\* compares names without regard to case (Windows), and nothing elsewhere
GlobPattern(dir, k, upper, fold) ==
  IF upper /\ ~fold THEN << >>
  ELSE LET keys == SetToSeq({ FileKey(f) : f \in { g \in dir : g.fmt = k } })
       IN [i \in 1..Len(keys) |-> FileOfKey(keys[i])]

\* audio_files: for each format in the order of supported_formats, the
\* lower-case glob and then the upper-case one, appended as they come
RECURSIVE GlobFrom(_, _, _)
GlobFrom(dir, k, fold) ==
  IF k > Len(supported_formats) THEN << >>
  ELSE GlobPattern(dir, k, FALSE, fold) \o GlobPattern(dir, k, TRUE, fold)
         \o GlobFrom(dir, k + 1, fold)

Glob(dir, fold) == GlobFrom(dir, 1, fold)

\* output_dir / f"{input_file.stem}_converted.wav"
output_file(f) == f.stem

\* the defaults of batch_convert's pitch_shift and f0_method
BatchPitch == 0

BatchF0 == "crepe"

\* batch_convert up to the loop: mkdir, glob, the empty-directory return
batch_convert ==
  /\ batch.pc = "idle"
  /\ \E dir \in Listings, mkdirOk \in BOOLEAN, fold \in BOOLEAN :
       /\ Len(Glob(dir, fold)) <= MaxFiles
       /\ batch' = IF ~mkdirOk \/ dir = {}
                   THEN [NoBatch EXCEPT !.pc = "done", !.ret = BatchConvertRet(mkdirOk, << >>)]
                   ELSE [NoBatch EXCEPT !.pc = "loop", !.audio_files = Glob(dir, fold)]
  /\ UNCHANGED <<files, temp_file, conv>>
  /\ UNCHANGED orchVars
  /\ UNCHANGED prepVars
  /\ UNCHANGED dspVars

\* one iteration of the loop, and the return after the last one
batch_convert_file ==
  /\ batch.pc = "loop"
  /\ batch.idx < Len(batch.audio_files)
  /\ \E e \in ConvEnvs(inference, BatchInputs, {output_file(batch.audio_files[batch.idx + 1])}) :
       \E r \in {ConvertVoice(inference, e)} :
         /\ e.pitch = BatchPitch
         /\ e.f0 = BatchF0
         /\ conv' = ConvRecord(e, r)
         /\ ConvertEffects(e, r)
         /\ LET s == batch.successful + (IF r.ret THEN 1 ELSE 0)
                fl == batch.failed + (IF r.ret THEN 0 ELSE 1)
                last == (batch.idx + 1 = Len(batch.audio_files))
            IN batch' = [ batch EXCEPT !.idx = @ + 1,
                                       !.successful = s,
                                       !.failed = fl,
                                       !.log = @ \o << IF r.ret THEN "OK" ELSE "FAILED" >>,
                                       !.wrote = @ \o << r.wrote >>,
                                       !.pc = IF last THEN "done" ELSE "loop",
                                       !.ret = IF last THEN BatchReturn(s, fl) ELSE FALSE ]
  /\ UNCHANGED orchVars
  /\ UNCHANGED prepVars
  /\ UNCHANGED dspVars

---------------------------------------------------------------------------
(* AudioPreprocessor.segment_and_denoise_audio *)

\* Config.SAMPLE_RATE, and MIN_DURATION and MAX_DURATION in tenths of a second
SAMPLE_RATE == 44100

MIN_DURATION_TENTHS == 3

MAX_DURATION_TENTHS == 150

\* top_db of the call of librosa.effects.split
top_db == 25

\* a duration filter that lets every length through
TooShortNever(len, sr) == FALSE

\* duration < self.config.MIN_DURATION, for duration = len / sr
TooShort(len, sr) == len * 10 < MIN_DURATION_TENTHS * sr

\* duration > self.config.MAX_DURATION
TooLong(len, sr) == len * 10 > MAX_DURATION_TENTHS * sr

\* int(self.config.MAX_DURATION * sr)
max_samples(sr) == (MAX_DURATION_TENTHS * sr) \div 10

\* the fewest samples that last MIN_DURATION
MinSamples == (MIN_DURATION_TENTHS * SAMPLE_RATE + 9) \div 10

\* a buffer is a sequence of stretches, each of one level: digital silence
\* or voice at full scale (the buffer is peak-normalised)
Levels == {"silence", "voice"}

\* the level of a frame as amplitude_to_db sees it, floored at amin
LevelDb(l) == IF l = "voice" THEN 0 ELSE -100

RunLens ==
  { k * max_samples(SAMPLE_RATE) + r :
      k \in 0..MaxChunks, r \in {0, MinSamples - 1, MinSamples, 5 * SAMPLE_RATE} } \ {0}

Runs == [level : Levels, len : RunLens]

Buffers ==
  UNION { { b \in [1..n -> Runs] : \A i \in 1..(n - 1) : b[i].level # b[i + 1].level } :
          n \in 1..MaxRuns }

Interval(start, end) == [start |-> start, end |-> end]

RECURSIVE MaxDb(_)
MaxDb(buf) ==
  IF Len(buf) = 1 THEN LevelDb(buf[1].level)
  ELSE LET m == MaxDb(Tail(buf))
       IN IF LevelDb(buf[1].level) > m THEN LevelDb(buf[1].level) ELSE m

\* a frame is non-silent when it is less than top_db below the loudest frame
NonSilent(buf, i) == LevelDb(buf[i].level) - MaxDb(buf) > -top_db

\* librosa.effects.split: the maximal non-silent stretches, in samples
RECURSIVE SplitFrom(_, _, _, _)
SplitFrom(buf, i, pos, acc) ==
  IF i > Len(buf) THEN acc
  ELSE LET end == pos + buf[i].len
           next == IF ~NonSilent(buf, i) THEN acc
                   ELSE IF acc # << >> /\ acc[Len(acc)].end = pos
                        THEN [acc EXCEPT ![Len(acc)].end = end]
                        ELSE Append(acc, Interval(pos, end))
       IN SplitFrom(buf, i + 1, end, next)

split(buf) == SplitFrom(buf, 1, 0, << >>)

\* for i in range(0, len(segment), max_samples): keep the chunks that last
\* at least MIN_DURATION
RECURSIVE Chunks(_, _, _, _)
Chunks(start, end, i, sr) ==
  IF start + i >= end THEN << >>
  ELSE LET subEnd == IF start + i + max_samples(sr) < end
                     THEN start + i + max_samples(sr) ELSE end
       IN (IF ~TooShort(subEnd - (start + i), sr)
           THEN << Interval(start + i, subEnd) >> ELSE << >>)
          \o Chunks(start, end, i + max_samples(sr), sr)

\* the body of the loop, had it kept long intervals whole
SegmentsOfWhole(iv, sr) ==
  IF TooShort(iv.end - iv.start, sr) THEN << >> ELSE << iv >>

\* the body of the loop over the intervals
SegmentsOf(iv, sr) ==
  IF TooShort(iv.end - iv.start, sr) THEN << >>
  ELSE IF TooLong(iv.end - iv.start, sr) THEN Chunks(iv.start, iv.end, 0, sr)
  ELSE << iv >>

RECURSIVE SegmentsOfAll(_, _)
SegmentsOfAll(intervals, sr) ==
  IF intervals = << >> THEN << >>
  ELSE SegmentsOf(intervals[1], sr) \o SegmentsOfAll(Tail(intervals), sr)

\* segment_and_denoise_audio: [] when split raises or finds no interval
SegmentAndDenoise(buf, sr, splitOk) ==
  IF ~splitOk THEN << >>
  ELSE IF split(buf) = << >> THEN << >>
  ELSE SegmentsOfAll(split(buf), sr)

NoSeg == [pc |-> "ready", buffer |-> << >>, intervals |-> << >>, segments |-> << >>, raised |-> FALSE]

segment_and_denoise_audio ==
  /\ seg.pc = "ready"
  /\ \E splitOk \in BOOLEAN :
       seg' = [ seg EXCEPT !.pc = "done",
                           !.intervals = IF splitOk THEN split(seg.buffer) ELSE << >>,
                           !.segments = SegmentAndDenoise(seg.buffer, SAMPLE_RATE, splitOk) ]
  /\ UNCHANGED <<pipeline, extractor>>
  /\ UNCHANGED dspVars
  /\ UNCHANGED orchVars
  /\ UNCHANGED cascadeVars

---------------------------------------------------------------------------
(* AudioPreprocessor.run_preprocessing_pipeline *)

\* the training files, by what load_and_preprocess_audio and split make of
\* them: undecodable, a second of digital silence, a voiced burst too short
\* to keep, one segment's worth of voice, and a long take
PipelineFiles ==
  { [decodable |-> FALSE, buffer |-> << >>],
    [decodable |-> TRUE, buffer |-> << [level |-> "silence", len |-> SAMPLE_RATE] >>],
    [decodable |-> TRUE, buffer |-> << [level |-> "silence", len |-> SAMPLE_RATE],
                                       [level |-> "voice", len |-> MinSamples - 1] >>],
    [decodable |-> TRUE, buffer |-> << [level |-> "voice", len |-> max_samples(SAMPLE_RATE)] >>],
    [decodable |-> TRUE,
     buffer |-> << [level |-> "voice",
                    len |-> LongChunks * max_samples(SAMPLE_RATE) + MinSamples] >>] }

\* an index that restarts with every file
SegmentIndexPerFile(all_segments, seg_idx) == seg_idx

\* f"segment_{len(all_segments):05d}.wav"
SegmentIndex(all_segments, seg_idx) == Len(all_segments)

\* for seg_idx, segment_data in enumerate(segments): sf.write, append
RECURSIVE SaveSegments(_, _, _, _)
SaveSegments(all_segments, file, segments, seg_idx) ==
  IF seg_idx >= Len(segments) THEN all_segments
  ELSE SaveSegments(
         Append(all_segments,
                [ index |-> SegmentIndex(all_segments, seg_idx), file |-> file,
                  start |-> segments[seg_idx + 1].start, end |-> segments[seg_idx + 1].end ]),
         file, segments, seg_idx + 1)

\* max(1, len(segment_files) // 10)
ValCount(n) == IF n \div 10 > 1 THEN n \div 10 ELSE 1

\* the last k entries
LastN(s, k) == SubSeq(s, Len(s) - (IF k < Len(s) THEN k ELSE Len(s)) + 1, Len(s))

\* segment_files[:k]
FirstN(s, k) == SubSeq(s, 1, IF k < Len(s) THEN k ELSE Len(s))

NoLists == [ret |-> FALSE, written |-> FALSE, train |-> << >>, val |-> << >>]

\* generate_file_lists: one line per segment file; False when a list
\* cannot be opened
GenerateFileLists(segment_files, listOk) ==
  IF ~listOk THEN NoLists
  ELSE LET lines == [i \in 1..Len(segment_files) |-> segment_files[i].index]
       IN [ ret |-> TRUE, written |-> TRUE, train |-> lines,
            val |-> FirstN(lines, ValCount(Len(segment_files))) ]

\* the last run that went through without a fault, for as long as the
\* current run is over the same files: the files in the order it took them
\* and the source of each of its segments
NoPrev == [valid |-> FALSE, files |-> << >>, sources |-> << >>]

\* wavs: the number of segment_*.wav files in DATA_DIR / "wavs", which
\* outlive the run; clean: no step of this run hit a fault so far
NoPipeline ==
  [ pc |-> "idle", n |-> 0, idx |-> 0, all_segments |-> << >>, log |-> << >>,
    lists |-> NoLists, fault |-> "none", ret |-> FALSE, raised |-> FALSE,
    wavs |-> 0, clean |-> TRUE, prev |-> NoPrev ]

\* the files of a run in the order list(set(audio_files)) gave them
FilesOf(p) == [i \in 1..Len(p.log) |-> p.log[i].file]

\* for each segment index of a run, the file and the interval it was cut from
Sources(p) ==
  [ k \in 1..Len(p.all_segments) |->
      [ file |-> p.log[p.all_segments[k].file].file,
        start |-> p.all_segments[k].start, end |-> p.all_segments[k].end ] ]

Count(fs, f) == Cardinality({ i \in 1..Len(fs) : fs[i] = f })

\* sf.write of segment_00000.wav .. segment_{k-1}.wav over what is there
WavsAfter(wavs, k) == IF k > wavs THEN k ELSE wavs

\* len(list(wavs_dir.glob("*.wav")))
get_preprocessing_stats(p) == [segments |-> p.wavs]

\* what happens to one file: how it loads and splits, whether its segments
\* can be written, and, after the last file, whether the lists and the
\* feature directories can be
FileEnvs ==
  { e \in [ file : PipelineFiles, splitOk : BOOLEAN, writeOk : BOOLEAN,
            listOk : BOOLEAN, featuresOk : BOOLEAN ] :
      /\ (~e.file.decodable => e.splitOk)
      /\ (SegmentAndDenoise(e.file.buffer, SAMPLE_RATE, e.file.decodable /\ e.splitOk) = << >>
            => e.writeOk) }

\* the steps after the loop: the empty check, the lists, the features
FinishPipeline(p, listOk, featuresOk) ==
  IF p.all_segments = << >>
  THEN [p EXCEPT !.pc = "done", !.ret = FALSE]
  ELSE [p EXCEPT !.pc = "done",
                 !.lists = GenerateFileLists(p.all_segments, listOk),
                 !.fault = IF featuresOk THEN "none" ELSE "features",
                 !.ret = featuresOk]

\* run_preprocessing_pipeline up to the loop: validation and mkdir; the
\* pipeline may be run again when it has returned
run_preprocessing_pipeline ==
  /\ pipeline.pc \in {"idle", "done"}
  /\ \E n \in 0..MaxFiles, mkdirOk \in BOOLEAN :
       LET earlier == IF pipeline.pc = "done" /\ pipeline.ret /\ pipeline.clean
                         /\ Len(pipeline.log) = n /\ mkdirOk
                      THEN [ valid |-> TRUE, files |-> FilesOf(pipeline),
                             sources |-> Sources(pipeline) ]
                      ELSE NoPrev
           fresh == [NoPipeline EXCEPT !.wavs = pipeline.wavs, !.prev = earlier]
       IN pipeline' = IF n = 0
                      THEN [fresh EXCEPT !.pc = "done"]
                      ELSE IF ~mkdirOk
                      THEN [fresh EXCEPT !.pc = "done", !.n = n, !.fault = "mkdir",
                                         !.clean = FALSE]
                      ELSE [fresh EXCEPT !.pc = "loop", !.n = n]
  /\ UNCHANGED <<seg, extractor>>
  /\ UNCHANGED dspVars
  /\ UNCHANGED orchVars
  /\ UNCHANGED cascadeVars

\* one iteration of the loop over audio_files, and the steps after the last
process_audio_file ==
  /\ pipeline.pc = "loop"
  /\ pipeline.idx < pipeline.n
  /\ \E e \in FileEnvs :
       LET loaded == e.file.decodable
           segments == IF loaded THEN SegmentAndDenoise(e.file.buffer, SAMPLE_RATE, e.splitOk)
                       ELSE << >>
           entry == [ file |-> e.file,
                      intervals |-> IF loaded /\ e.splitOk THEN split(e.file.buffer) ELSE << >>,
                      segments |-> Len(segments) ]
           p == [ pipeline EXCEPT !.idx = @ + 1, !.log = Append(@, entry) ]
           last == (pipeline.idx + 1 = pipeline.n)
       IN /\ ( \/ ~last
               \/ (segments = << >> /\ pipeline.all_segments = << >>)
               \/ (segments # << >> /\ ~e.writeOk) )
               => (e.listOk /\ e.featuresOk)
          /\ LET r == IF segments # << >> /\ ~e.writeOk
                      THEN [p EXCEPT !.pc = "done", !.fault = "write", !.ret = FALSE]
                      ELSE LET q == [p EXCEPT !.all_segments =
                                                SaveSegments(@, pipeline.idx + 1, segments, 0)]
                           IN IF last THEN FinishPipeline(q, e.listOk, e.featuresOk) ELSE q
                 clean == /\ pipeline.clean
                          /\ e.splitOk /\ e.writeOk /\ e.listOk /\ e.featuresOk
                 same == /\ pipeline.prev.valid
                         /\ Count(pipeline.prev.files, e.file)
                              > Count(FilesOf(pipeline), e.file)
             IN pipeline' = [ r EXCEPT !.wavs = WavsAfter(@, Len(r.all_segments)),
                                       !.clean = clean,
                                       !.prev = IF clean /\ same THEN @ ELSE NoPrev ]
  /\ UNCHANGED <<seg, extractor>>
  /\ UNCHANGED dspVars
  /\ UNCHANGED orchVars
  /\ UNCHANGED cascadeVars

---------------------------------------------------------------------------
(* SpeakerProfileExtractor.extract_from_directory *)

\* f0 estimates of voiced frames: pyin's fmin, its fmax and two in between
PitchValues == {50, 120, 250, 500}

PitchRange(lo, hi) == [min |-> lo, max |-> hi]

\* SpeakerProfile.__init__: self.pitch_range
InitPitchRange == PitchRange(60, 300)

SetMin(S) == CHOOSE x \in S : \A y \in S : x <= y

SetMax(S) == CHOOSE x \in S : \A y \in S : x >= y

SeqMin(s) == SetMin({ s[i] : i \in 1..Len(s) })

SeqMax(s) == SetMax({ s[i] : i \in 1..Len(s) })

\* estimate_pitch_range: min and max of the voiced estimates, the default
\* range when no frame is voiced or pyin raises
estimate_pitch_range(voiced, pyinOk) ==
  IF pyinOk /\ voiced # {} THEN PitchRange(SetMin(voiced), SetMax(voiced))
  ELSE PitchRange(60, 300)

\* one wav file of the directory: whether it can be analysed (None
\* otherwise), whether pyin returns, the voiced estimates it gives
ProfileFileEnvs ==
  { e \in [analysed : BOOLEAN, pyinOk : BOOLEAN, voiced : SUBSET PitchValues] :
      /\ (~e.analysed => e.pyinOk)
      /\ (~(e.analysed /\ e.pyinOk) => e.voiced = {}) }

\* a range between the largest minimum and the smallest maximum
AggregatePitchRangeInner(pitch_mins, pitch_maxs) ==
  PitchRange(SeqMax(pitch_mins), SeqMin(pitch_maxs))

\* (np.min(pitch_mins), np.max(pitch_maxs))
AggregatePitchRange(pitch_mins, pitch_maxs) ==
  PitchRange(SeqMin(pitch_mins), SeqMax(pitch_maxs))

\* what extract_from_directory hands back for this many analysed files: the
\* SpeakerProfile object it created at the start, in every case
ExtractResult(analysed) == "profile"

\* the steps after the loop, for the pitch range
FinishProfile(x) ==
  [ x EXCEPT !.pc = "done",
             !.result = ExtractResult(Len(x.pitch_mins)),
             !.profile.pitch_range =
               IF x.pitch_mins # << >> /\ x.pitch_maxs # << >>
               THEN AggregatePitchRange(x.pitch_mins, x.pitch_maxs)
               ELSE @ ]

NoExtractor ==
  [ pc |-> "idle", n |-> 0, idx |-> 0, pitch_mins |-> << >>, pitch_maxs |-> << >>,
    skipped |-> 0, result |-> "none", raised |-> FALSE,
    profile |-> [pitch_range |-> InitPitchRange] ]

\* extract_from_directory up to the loop: a fresh profile, the glob
extract_from_directory ==
  /\ extractor.pc = "idle"
  /\ \E n \in 0..MaxFiles :
       extractor' = IF n = 0
                    THEN [NoExtractor EXCEPT !.pc = "done", !.result = ExtractResult(0)]
                    ELSE [NoExtractor EXCEPT !.pc = "loop", !.n = n]
  /\ UNCHANGED <<seg, pipeline>>
  /\ UNCHANGED dspVars
  /\ UNCHANGED orchVars
  /\ UNCHANGED cascadeVars

\* one iteration: extract_from_audio_file, then the aggregation after the
\* last file
extract_from_audio_file ==
  /\ extractor.pc = "loop"
  /\ extractor.idx < extractor.n
  /\ \E e \in ProfileFileEnvs :
       LET r == estimate_pitch_range(e.voiced, e.pyinOk)
           x == IF e.analysed
                THEN [ extractor EXCEPT !.idx = @ + 1,
                                        !.pitch_mins = Append(@, r.min),
                                        !.pitch_maxs = Append(@, r.max) ]
                ELSE [ extractor EXCEPT !.idx = @ + 1, !.skipped = @ + 1 ]
       IN extractor' = IF extractor.idx + 1 = extractor.n THEN FinishProfile(x) ELSE x
  /\ UNCHANGED <<seg, pipeline>>
  /\ UNCHANGED dspVars
  /\ UNCHANGED orchVars
  /\ UNCHANGED cascadeVars

---------------------------------------------------------------------------
(* The DSP converters: advanced_voice_converter.py, gregg_voice_converter.py,
   voice_converter_simulator.py *)

\* RMS levels are counted in units of 1e-8, the constant added to output_rms
rms_eps == 1

RmsValues == {0} \cup { m * 10^k : m \in {1, 2}, k \in 0..MaxRmsExp }

\* a quotient of two levels; a zero denominator stands for inf or nan
Ratio(n, d) == [num |-> n, den |-> d]

RMS_SCALE_MIN == Ratio(3, 10)

RMS_SCALE_MAX == Ratio(2, 1)

Finite(r) == r.den # 0

Less(a, b) == a.num * b.den < b.num * a.den

\* np.clip(x, lo, hi): nan stays nan, inf becomes hi
Clip(x, lo, hi) ==
  IF x.den = 0 THEN (IF x.num = 0 THEN x ELSE hi)
  ELSE IF Less(x, lo) THEN lo
  ELSE IF Less(hi, x) THEN hi
  ELSE x

\* a loudness match that applies the quotient as it is
rms_scaleUnclipped(gregg_rms, output_rms) == Ratio(gregg_rms, output_rms + rms_eps)

\* rms_scale = np.clip(gregg_rms / (output_rms + 1e-8), 0.3, 2.0)
rms_scale(gregg_rms, output_rms) ==
  Clip(Ratio(gregg_rms, output_rms + rms_eps), RMS_SCALE_MIN, RMS_SCALE_MAX)

\* the stages a converter runs on a buffer, in the order it runs them.
\* "normalize" scales the whole buffer to a peak level (a step skipped on a
\* silent buffer, which it would leave as it is), "limit" scales the buffer
\* down when its peak exceeds a threshold, "clip" is np.clip to [-1, 1].
Stage(on, name) == IF on THEN << name >> ELSE << >>

\* AdvancedVoiceConverter.apply_speaker_characteristics
\* and its _safe_normalize
AdvancedStages(shifted, formants, bright, centroid) ==
  Stage(shifted, "pitch_shift") \o Stage(formants, "formant")
    \o Stage(bright, "brightness") \o Stage(centroid, "envelope")
    \o << "normalize", "clip" >>

\* AdvancedGreggConverter.convert_voice, steps 1 to 6 and the peak limit
GreggStages(f0Detected, centroid, peaks) ==
  Stage(f0Detected, "pitch_shift") \o << "envelope" >> \o Stage(centroid, "formant")
    \o << "loudness_match" >> \o Stage(peaks, "limit")

\* VoiceConversionSimulator.apply_spectral_processing: the filter, then
\* audio_filtered / max_val * np.max(np.abs(audio))
SpectralProcessingStages(bright) ==
  IF bright THEN << "brightness", "normalize" >> ELSE << >>

\* VoiceConversionSimulator.convert_voice
SimulatorStages(shifted, formants, bright, stretched, vocoded, peaks) ==
  Stage(shifted, "pitch_shift") \o Stage(formants, "formant")
    \o SpectralProcessingStages(bright)
    \o Stage(stretched, "time_stretch") \o Stage(vocoded, "vocoder")
    \o Stage(peaks, "limit")

NoDsp ==
  [ op |-> "none", stages |-> << >>, gregg_rms |-> 0, output_rms |-> 0,
    rms_scale |-> Ratio(1, 1) ]

apply_speaker_characteristics ==
  /\ dsp.op = "none"
  /\ \E shifted, formants, bright, centroid \in BOOLEAN :
       dsp' = [ NoDsp EXCEPT !.op = "advanced",
                             !.stages = AdvancedStages(shifted, formants, bright, centroid) ]
  /\ UNCHANGED requests
  /\ UNCHANGED orchVars
  /\ UNCHANGED cascadeVars
  /\ UNCHANGED prepVars

gregg_convert_voice ==
  /\ dsp.op = "none"
  /\ \E t \in RmsValues, o \in RmsValues, f0Detected, centroid, peaks \in BOOLEAN :
       \* a silent output has no peak above 0.95
       /\ peaks => (o > 0 /\ t > 0)
       /\ dsp' = [ op |-> "gregg", stages |-> GreggStages(f0Detected, centroid, peaks),
                   gregg_rms |-> t, output_rms |-> o, rms_scale |-> rms_scale(t, o) ]
  /\ UNCHANGED requests
  /\ UNCHANGED orchVars
  /\ UNCHANGED cascadeVars
  /\ UNCHANGED prepVars

simulator_convert_voice ==
  /\ dsp.op = "none"
  /\ \E shifted, formants, bright, stretched, vocoded, peaks \in BOOLEAN :
       dsp' = [ NoDsp EXCEPT !.op = "simulator",
                             !.stages = SimulatorStages(shifted, formants, bright, stretched,
                                                        vocoded, peaks) ]
  /\ UNCHANGED requests
  /\ UNCHANGED orchVars
  /\ UNCHANGED cascadeVars
  /\ UNCHANGED prepVars

---------------------------------------------------------------------------
(* VoiceInference objects constructed and used by several callers at once,
   in one working directory that holds at first no speaker_profile.json;
   each caller has its own input and output file *)

Requests == 1..MaxRequests

\* the directories the output files lie in
OutDirs == 1..2

\* the result a request saves: the strategy and whose source it converted
Saved(by, source) == [by |-> by, source |-> source]

NoSaved == Saved("none", 0)

NoRequest ==
  [ pc |-> "new", use_neural_converter |-> FALSE, use_speaker_profile |-> FALSE,
    dir |-> 1, toolkit |-> FALSE, saveOk |-> FALSE, got |-> 0, saved |-> NoSaved ]

\* wavs: data/wavs holds *.wav; profile: the state of speaker_profile.json;
\* temp[d]: whose audio
\* _temp_inference.wav of directory d holds, 0 when the file does not
\* exist; profile_touched and temp_touched[d]: the requests that wrote,
\* read or removed the file
NoRequests ==
  [ req |-> [r \in Requests |-> NoRequest],
    wavs |-> FALSE,
    profile |-> "absent",
    temp |-> [d \in OutDirs |-> 0],
    profile_touched |-> {},
    temp_touched |-> [d \in OutDirs |-> {}] ]

\* Path(output_audio).parent / "_temp_inference.wav"
temp_audio_path(q) == q.dir

Touch(r, d) == [requests.temp_touched EXCEPT ![d] = @ \cup {r}]

RequestFrame ==
  /\ UNCHANGED dsp
  /\ UNCHANGED orchVars
  /\ UNCHANGED cascadeVars
  /\ UNCHANGED prepVars

\* __init__: with training data the learned converter is trained; when
\* there is none or that fails the profile file is loaded if it exists (a
\* file still being written does not parse) and created from the training
\* data otherwise
VoiceInference_init(r) ==
  /\ requests.req[r].pc = "new"
  /\ \E trainOk \in BOOLEAN :
       requests' =
         IF requests.wavs /\ trainOk
         THEN [ requests EXCEPT !.req[r].pc = "constructed",
                                !.req[r].use_neural_converter = TRUE ]
         ELSE IF requests.profile = "absent"
         THEN [ requests EXCEPT !.req[r].pc = IF requests.wavs THEN "creating"
                                              ELSE "constructed" ]
         ELSE [ requests EXCEPT !.req[r].pc = "constructed",
                                !.req[r].use_speaker_profile = (requests.profile = "complete"),
                                !.profile_touched = @ \cup {r} ]
  /\ RequestFrame

\* save_speaker_profile: open(save_path, 'w')
save_speaker_profile_open(r) ==
  /\ requests.req[r].pc = "creating"
  /\ requests' = [ requests EXCEPT !.req[r].pc = "writing",
                                   !.profile = "partial",
                                   !.profile_touched = @ \cup {r} ]
  /\ RequestFrame

\* save_speaker_profile: json.dump and the end of the with block
save_speaker_profile_close(r) ==
  /\ requests.req[r].pc = "writing"
  /\ requests' = [ requests EXCEPT !.req[r].pc = "constructed",
                                   !.req[r].use_speaker_profile = TRUE,
                                   !.profile = "complete" ]
  /\ RequestFrame

\* convert_voice up to priority 3: load the source; the learned converter
\* or the profile converts it, or else the toolkit wrapper is tried when
\* the object has one, or else the simulation converts it
convert_voice_begin(r) ==
  /\ requests.req[r].pc = "constructed"
  /\ \E d \in OutDirs, toolkit \in BOOLEAN :
       LET q == requests.req[r]
       IN requests' = [ requests EXCEPT
            !.req[r] =
              IF q.use_neural_converter
              THEN [ @ EXCEPT !.pc = "done", !.dir = d, !.toolkit = toolkit,
                              !.saved = Saved("LearnedConverter", r) ]
              ELSE IF q.use_speaker_profile
              THEN [ @ EXCEPT !.pc = "done", !.dir = d, !.toolkit = toolkit,
                              !.saved = Saved("ProfileConverter", r) ]
              ELSE IF toolkit
              THEN [ @ EXCEPT !.pc = "loaded", !.dir = d, !.toolkit = TRUE ]
              ELSE [ @ EXCEPT !.pc = "done", !.dir = d,
                              !.saved = Saved("SimulationConverter", r) ] ]
  /\ RequestFrame

\* torchaudio.save(str(temp_audio_path), ...), which may raise
save_temp_audio(r) ==
  /\ requests.req[r].pc = "loaded"
  /\ \E saveOk \in BOOLEAN :
       LET d == temp_audio_path(requests.req[r])
       IN requests' =
            IF saveOk
            THEN [ requests EXCEPT !.req[r].pc = "saved",
                                   !.req[r].saveOk = TRUE,
                                   !.temp[d] = r,
                                   !.temp_touched = Touch(r, d) ]
            ELSE [ requests EXCEPT !.req[r].pc = "done",
                                   !.req[r].saved = Saved("SimulationConverter", r) ]
  /\ RequestFrame

\* self.sovits_wrapper.convert(str(temp_audio_path), ...): the wrapper reads
\* the file; when it is gone both infer and the reload of the original
\* raise, and the cascade falls through to the simulation
wrapper_convert(r) ==
  /\ requests.req[r].pc = "saved"
  /\ LET d == temp_audio_path(requests.req[r])
         t == requests.temp[d]
     IN requests' = [ requests EXCEPT
          !.req[r] = IF t = 0
                     THEN [ @ EXCEPT !.pc = "done", !.saved = Saved("SimulationConverter", r) ]
                     ELSE [ @ EXCEPT !.pc = "converted", !.got = t ],
          !.temp_touched = Touch(r, d) ]
  /\ RequestFrame

\* temp_audio_path.unlink(), which raises when the file is gone, and then
\* save_output_audio
unlink_temp_audio(r) ==
  /\ requests.req[r].pc = "converted"
  /\ LET d == temp_audio_path(requests.req[r])
         t == requests.temp[d]
     IN requests' = [ requests EXCEPT
          !.req[r] = [ @ EXCEPT !.pc = "done",
                                !.saved = IF t = 0
                                          THEN Saved("SimulationConverter", r)
                                          ELSE Saved("ExternalToolkitAdapter",
                                                     requests.req[r].got) ],
          !.temp[d] = 0,
          !.temp_touched = Touch(r, d) ]
  /\ RequestFrame

---------------------------------------------------------------------------
(* Specifications *)

Init ==
  /\ workflow_state = InitWorkflowState
  /\ inference = NoInference
  /\ call = NoCall
  /\ succeeded = {}
  /\ files = [p \in Paths |-> NoFile]
  /\ temp_file = FALSE
  /\ conv = NoConv
  /\ batch = NoBatch
  /\ seg = NoSeg
  /\ pipeline = NoPipeline
  /\ extractor = NoExtractor
  /\ dsp = NoDsp
  /\ requests = NoRequests

Next ==
  \/ run_phase_1_environment_detection
  \/ run_phase_2_environment_setup
  \/ run_phase_3_audio_preprocessing
  \/ run_phase_4_model_training
  \/ run_phase_5_voice_inference
  \/ batch_inference

Spec == Init /\ [][Next]_vars

InitCascade ==
  /\ workflow_state = InitWorkflowState
  /\ inference \in Inferences
  /\ call = NoCall
  /\ succeeded = {}
  /\ files = [p \in Paths |-> NoFile]
  /\ temp_file = FALSE
  /\ conv = NoConv
  /\ batch = NoBatch
  /\ seg = NoSeg
  /\ pipeline = NoPipeline
  /\ extractor = NoExtractor
  /\ dsp = NoDsp
  /\ requests = NoRequests

NextCascade == convert_voice

SpecCascade == InitCascade /\ [][NextCascade]_vars

NextBatch ==
  \/ batch_convert
  \/ batch_convert_file

SpecBatch == InitCascade /\ [][NextBatch]_vars

InitSegment ==
  /\ workflow_state = InitWorkflowState
  /\ inference = NoInference
  /\ call = NoCall
  /\ succeeded = {}
  /\ files = [p \in Paths |-> NoFile]
  /\ temp_file = FALSE
  /\ conv = NoConv
  /\ batch = NoBatch
  /\ seg \in { [NoSeg EXCEPT !.buffer = b] : b \in Buffers }
  /\ pipeline = NoPipeline
  /\ extractor = NoExtractor
  /\ dsp = NoDsp
  /\ requests = NoRequests

NextSegment == segment_and_denoise_audio

SpecSegment == InitSegment /\ [][NextSegment]_vars

NextPipeline ==
  \/ run_preprocessing_pipeline
  \/ process_audio_file

SpecPipeline == Init /\ [][NextPipeline]_vars

NextProfile ==
  \/ extract_from_directory
  \/ extract_from_audio_file

SpecProfile == Init /\ [][NextProfile]_vars

NextDsp ==
  \/ apply_speaker_characteristics
  \/ gregg_convert_voice
  \/ simulator_convert_voice

SpecDsp == Init /\ [][NextDsp]_vars

NextRequests ==
  \/ \E r \in Requests : VoiceInference_init(r)
  \/ \E r \in Requests : save_speaker_profile_open(r)
  \/ \E r \in Requests : save_speaker_profile_close(r)
  \/ \E r \in Requests : convert_voice_begin(r)
  \/ \E r \in Requests : save_temp_audio(r)
  \/ \E r \in Requests : wrapper_convert(r)
  \/ \E r \in Requests : unlink_temp_audio(r)

InitRequests ==
  /\ workflow_state = InitWorkflowState
  /\ inference = NoInference
  /\ call = NoCall
  /\ succeeded = {}
  /\ files = [p \in Paths |-> NoFile]
  /\ temp_file = FALSE
  /\ conv = NoConv
  /\ batch = NoBatch
  /\ seg = NoSeg
  /\ pipeline = NoPipeline
  /\ extractor = NoExtractor
  /\ dsp = NoDsp
  /\ requests \in { [NoRequests EXCEPT !.wavs = w] : w \in BOOLEAN }

SpecRequests == InitRequests /\ [][NextRequests]_vars

---------------------------------------------------------------------------
(* Properties of the workflow controller (Spec) *)

PhaseOps == {"phase1", "phase2", "phase3", "phase4", "phase5", "batch"}

GatedOps == PhaseOps \ {"phase1"}

\* the flags that must be set before an operation may run: the flag of the
\* preceding phase and, for inference, the flag the code tests
Predecessors(op) ==
  CASE op = "phase2" -> {"env_detected"}
    [] op = "phase3" -> {"env_setup"}
    [] op = "phase4" -> {"audio_processed"}
    [] op = "phase5" -> {"model_trained", "ready_for_inference"}
    [] op = "batch" -> {"model_trained", "ready_for_inference"}
    [] OTHER -> {}

\* C1: once a workflow flag is true it never becomes false again, whatever
\* phase is invoked next and whether its collaborator succeeds or fails.
C1_FlagsMonotone ==
  [][ \A f \in Flags : workflow_state[f] => workflow_state'[f] ]_vars

\* C2: a phase 2-5 or batch_inference call made while a predecessor flag is
\* false returns False, raises nothing and invokes no collaborator.
C2_RejectedWithoutCollaborator ==
  \A op \in GatedOps :
    (call.op = op /\ \E f \in Predecessors(op) : ~call.pre[f])
      => (call.ret = FALSE /\ ~call.raised /\ call.invoked = << >>)

C2_Witness ==
  /\ call.op = "phase3"
  /\ call.pre["env_detected"]
  /\ ~call.pre["env_setup"]
  /\ call.ret = FALSE

\* C3: the true flags always form a prefix of env_detected, env_setup,
\* audio_processed, model_trained, ready_for_inference.
C3_FlagsFormPrefix ==
  \A i, j \in 1..Len(FlagOrder) :
    (i < j /\ workflow_state[FlagOrder[j]]) => workflow_state[FlagOrder[i]]

\* the flag claim C4 gives each phase: the i-th flag to the i-th phase
OwnFlag(op) ==
  CASE op = "phase1" -> "env_detected"
    [] op = "phase2" -> "env_setup"
    [] op = "phase3" -> "audio_processed"
    [] op = "phase4" -> "model_trained"
    [] op = "phase5" -> "ready_for_inference"

\* the operation each phase delegates to
MainCall(op) ==
  CASE op = "phase1" -> "detector.run_all_checks"
    [] op = "phase2" -> "setup.run_complete_setup"
    [] op = "phase3" -> "preprocessor.run_preprocessing_pipeline"
    [] op = "phase4" -> "trainer.start_training"
    [] op = "phase5" -> "inference.convert_voice"
    [] op = "batch" -> "inference.batch_convert"

NoRepeat(seq) == \A i, j \in 1..Len(seq) : seq[i] = seq[j] => i = j

InvokedOnce(op) ==
  /\ NoRepeat(call.invoked)
  /\ \E i \in 1..Len(call.invoked) : call.invoked[i] = MainCall(op)

\* C4 as claimed: a successful phase leaves its own flag true, changes no
\* other flag and calls its collaborator once, for each of the five phases.
C4_OneFlagPerPhase ==
  \A op \in PhaseOps \ {"batch"} :
    (call.op = op /\ call.ret)
      => /\ workflow_state[OwnFlag(op)]
         /\ \A f \in Flags \ {OwnFlag(op)} : workflow_state[f] = call.pre[f]
         /\ InvokedOnce(op)

\* the flags each operation assigns in the code
AssignedFlags(op) ==
  CASE op = "phase1" -> {"env_detected"}
    [] op = "phase2" -> {"env_setup"}
    [] op = "phase3" -> {"audio_processed"}
    [] op = "phase4" -> {"model_trained", "ready_for_inference"}
    [] OTHER -> {}

\* C4 as amended: a successful phase 1-3 sets exactly its own flag, a
\* successful phase 4 sets model_trained and ready_for_inference, phase 5
\* and batch_inference set none; no other flag changes, and every
\* collaborator operation is called at most once, the phase's own once.
C4_FlagsPerPhase ==
  \A op \in PhaseOps :
    (call.op = op /\ call.ret)
      => /\ \A f \in AssignedFlags(op) : workflow_state[f]
         /\ \A f \in Flags \ AssignedFlags(op) : workflow_state[f] = call.pre[f]
         /\ InvokedOnce(op)

C4_Witness ==
  /\ call.op = "phase4"
  /\ call.ret
  /\ ~call.pre["model_trained"]
  /\ ~call.pre["ready_for_inference"]
  /\ workflow_state["model_trained"]
  /\ workflow_state["ready_for_inference"]

\* C5: a fresh orchestrator has every flag false, and no gated operation
\* has succeeded on an instance on which phase 1 has not succeeded.
C5_FreshAllFalse ==
  /\ call.op = "none" => \A f \in Flags : ~workflow_state[f]
  /\ \A op \in GatedOps : op \in succeeded => "phase1" \in succeeded

C5_Witness ==
  /\ call.op = "phase2"
  /\ call.ret
  /\ succeeded = {"phase1", "phase2"}

ConversionOps == {"phase5", "batch"}

\* C12: a step of run_phase_5_voice_inference or batch_inference, which
\* construct a VoiceInference and run convert_voice or batch_convert on it,
\* leaves every workflow flag as it was, whether the conversion succeeds or
\* fails and whichever strategies the object has.
C12_ConversionKeepsFlags ==
  [][ call'.op \in ConversionOps => workflow_state' = workflow_state ]_vars

C12_Witness ==
  /\ call.op = "phase5"
  /\ call.ret = FALSE
  /\ inference.constructed
  /\ workflow_state = [f \in Flags |-> TRUE]

---------------------------------------------------------------------------
(* Properties of the conversion cascade (SpecCascade, SpecBatch) *)

Failed(a) == a.outcome \in {"throw", "null"}

\* the strategies named by the "using ..." lines of the log, in order
RECURSIVE UsingNames(_)
UsingNames(log) ==
  IF log = << >> THEN << >>
  ELSE (IF log[1].msg = "using" THEN << log[1].name >> ELSE << >>) \o UsingNames(Tail(log))

AttemptNames(a) == [i \in 1..Len(a) |-> a[i].strategy]

\* C6: the strategies are attempted in the order learned, profile, toolkit,
\* simulation; one is attempted only after every available earlier one was
\* attempted and threw or returned null; the saved buffer is that of the
\* first attempt with a result; every attempt is logged under its name.
C6_CascadeOrder ==
  conv.reached =>
    LET a == conv.attempts
    IN /\ Len(a) >= 1
       /\ \A i, j \in 1..Len(a) : i < j => Rank(a[i].strategy) < Rank(a[j].strategy)
       /\ \A i \in 1..Len(a) : i < Len(a) => Failed(a[i])
       /\ \A i \in 1..Len(a) : \A k \in 1..Len(Strategies) :
            (k < Rank(a[i].strategy) /\ Available(inference, Strategies[k]))
              => \E j \in 1..Len(a) : j < i /\ a[j].strategy = Strategies[k]
       /\ a[Len(a)].outcome = "ok"
       /\ conv.saved.by = a[Len(a)].strategy
       /\ UsingNames(conv.log) = AttemptNames(a)

C6_Witness ==
  /\ conv.reached
  /\ Len(conv.attempts) = 3
  /\ conv.attempts[1].strategy = "LearnedConverter"
  /\ conv.attempts[2].strategy = "ExternalToolkitAdapter"
  /\ conv.attempts[2].outcome = "null"
  /\ conv.saved.by = "SimulationConverter"

GuardedStrategies == {"LearnedConverter", "ProfileConverter", "ExternalToolkitAdapter"}

\* C7: an exception raised inside the learned, profile or toolkit strategy
\* is logged as that strategy's failure, another strategy is attempted
\* after it, and convert_voice neither raises nor returns failure.
C7_StrategyExceptionCaught ==
  conv.reached =>
    \A i \in 1..Len(conv.attempts) :
      (conv.attempts[i].exception /\ conv.attempts[i].strategy \in GuardedStrategies)
        => /\ i < Len(conv.attempts)
           /\ \E k \in 1..Len(conv.log) :
                conv.log[k] = LogLine(conv.attempts[i].strategy, "failed")
           /\ conv.ret = TRUE
           /\ ~conv.raised

NothingConfigured(inf) ==
  /\ inf.constructed
  /\ ~inf.use_neural_converter
  /\ ~inf.use_speaker_profile
  /\ ~inf.sovits_wrapper

\* C8: with no learned model, no profile and no toolkit, convert_voice on
\* a decodable input, for any pitch shift, attempts the simulation alone,
\* saves its buffer and returns success.
C8_SimulationAlwaysSucceeds ==
  (NothingConfigured(inference) /\ conv.op = "convert_voice" /\ conv.input.state = "loaded")
    => /\ conv.attempts = << [strategy |-> "SimulationConverter", outcome |-> "ok",
                               exception |-> FALSE] >>
       /\ conv.saveCalled
       /\ conv.saved # NoAudio
       /\ conv.saved.by = "SimulationConverter"
       /\ conv.ret = TRUE
       /\ ~conv.raised

C8_Witness ==
  /\ NothingConfigured(inference)
  /\ conv.op = "convert_voice"
  /\ conv.input.state = "loaded"
  /\ conv.pitch = -7
  /\ conv.saved.by = "SimulationConverter"
  /\ conv.ret = TRUE

\* C9: the buffer handed to save_output_audio has as many samples as the
\* source buffer, whichever strategy produced it.
C9_LengthPreserved ==
  conv.saveCalled => conv.saved.len = conv.input.len

\* C10: when the converted buffer cannot be written, convert_voice returns
\* False, and batch_convert logs and counts that file as failed.
C10_WriteFailureSurfaced ==
  (conv.saveCalled /\ ~conv.wrote)
    => /\ conv.ret = FALSE
       /\ (batch.pc # "idle" /\ batch.idx >= 1) => batch.log[batch.idx] = "FAILED"

\* C11: an f0_method outside crepe, dio, harvest is replaced by crepe after
\* a warning and never makes convert_voice fail: a decodable input is still
\* converted, and every strategy called with an f0 method gets an allowed
\* one, crepe when the caller's value was not allowed.
C11_InvalidF0Defaulted ==
  conv.reached =>
    /\ conv.warned <=> conv.f0 \notin {"crepe", "dio", "harvest"}
    /\ \A i \in 1..Len(conv.received) :
         /\ conv.received[i].f0 \in {"crepe", "dio", "harvest"}
         /\ conv.warned => conv.received[i].f0 = "crepe"
         /\ ~conv.warned => conv.received[i].f0 = conv.f0
    /\ conv.warned => (conv.ret = TRUE /\ ~conv.raised)

C11_Witness ==
  /\ conv.reached
  /\ conv.f0 = "pm"
  /\ conv.warned
  /\ conv.received = << [strategy |-> "ExternalToolkitAdapter", f0 |-> "crepe"],
                        [strategy |-> "SimulationConverter", f0 |-> "crepe"] >>
  /\ conv.ret = TRUE

\* C13 as claimed: when batch_convert returns, every discovered file has
\* been attempted once, in order, successful + failed is the number of
\* discovered files, and the result is True exactly when failed = 0.
C13_BatchCountsAll ==
  batch.pc = "done" =>
    /\ batch.idx = Len(batch.audio_files)
    /\ Len(batch.log) = Len(batch.audio_files)
    /\ batch.successful + batch.failed = Len(batch.audio_files)
    /\ batch.ret <=> (batch.failed = 0)

\* C13 as amended: the loop attempts the discovered files one by one
\* whatever the earlier ones returned, successful + failed is the number of
\* files attempted so far and, on return, of files discovered; the result
\* is True exactly when at least one file was discovered and failed = 0.
C13_BatchCounts ==
  /\ batch.pc \in {"loop", "done"} =>
       /\ Len(batch.log) = batch.idx
       /\ batch.successful = CountOf(batch.log, "OK")
       /\ batch.failed = CountOf(batch.log, "FAILED")
       /\ batch.successful + batch.failed = batch.idx
  /\ batch.pc = "loop" => batch.idx < Len(batch.audio_files)
  /\ batch.pc = "done" =>
       /\ batch.idx = Len(batch.audio_files)
       /\ batch.ret <=> (Len(batch.audio_files) >= 1 /\ batch.failed = 0)

C13_Witness ==
  /\ batch.pc = "done"
  /\ Len(batch.audio_files) = 2
  /\ batch.log = << "FAILED", "OK" >>
  /\ batch.failed = 1
  /\ batch.ret = FALSE

\* C14: within a batch, an output that has been written is not written
\* again: no later file of the batch is saved to the path of an earlier
\* file's output.
C14_EarlierOutputsKept ==
  batch.pc \in {"loop", "done"} =>
    \A i, j \in 1..batch.idx :
      (i < j /\ batch.wrote[i] /\ batch.wrote[j])
        => output_file(batch.audio_files[i]) # output_file(batch.audio_files[j])

---------------------------------------------------------------------------
(* Properties of the audio preprocessor (SpecSegment, SpecPipeline) *)

SegLen(s) == s.end - s.start

\* C15: every segment segment_and_denoise_audio emits lasts at least
\* MIN_DURATION and at most MAX_DURATION: 10 * len is between 3 * sr and
\* 150 * sr, whatever intervals the buffer has.
C15_SegmentDurationBounded ==
  seg.pc = "done" =>
    \A i \in 1..Len(seg.segments) :
      /\ 10 * SegLen(seg.segments[i]) >= 3 * 44100
      /\ 10 * SegLen(seg.segments[i]) <= 150 * 44100

\* a long interval whose remainder lasts exactly MIN_DURATION and is kept
C15_Witness ==
  /\ seg.pc = "done"
  /\ Len(seg.intervals) = 1
  /\ Len(seg.segments) = 2
  /\ 10 * SegLen(seg.segments[1]) = 150 * 44100
  /\ 10 * SegLen(seg.segments[2]) = 3 * 44100

\* what C16 expects of one interval of L samples, M = int(MAX * sr)
ExpectedSegments(iv) ==
  LET L == iv.end - iv.start
      M == 661500
      q == L \div M
      r == L % M
  IN IF 10 * L < 3 * 44100 THEN << >>
     ELSE IF 10 * L <= 150 * 44100 THEN << iv >>
     ELSE [k \in 1..q |-> [start |-> iv.start + (k - 1) * M, end |-> iv.start + k * M]]
          \o (IF r > 0 /\ 10 * r >= 3 * 44100
              THEN << [start |-> iv.start + q * M, end |-> iv.end] >> ELSE << >>)

RECURSIVE ExpectedAll(_)
ExpectedAll(ivs) ==
  IF ivs = << >> THEN << >> ELSE ExpectedSegments(ivs[1]) \o ExpectedAll(Tail(ivs))

C17_GlobalSegmentIndex ==
  pipeline.pc \in {"loop", "done"} =>
    \A i \in 1..Len(pipeline.all_segments) : pipeline.all_segments[i].index = i - 1

\* the second file's segments continue the first file's numbering
C17_Witness ==
  /\ pipeline.pc = "done"
  /\ pipeline.ret = TRUE
  /\ Len(pipeline.all_segments) >= 2
  /\ \E i \in 1..Len(pipeline.all_segments) :
       /\ pipeline.all_segments[i].file = 2
       /\ pipeline.all_segments[i].start = 0
       /\ pipeline.all_segments[i].index >= 1

AllSilent(buf) == \A i \in 1..Len(buf) : buf[i].level = "silence"

EveryIntervalShort(ivs) == \A i \in 1..Len(ivs) : 10 * SegLen(ivs[i]) < 3 * 44100

RECURSIVE SumSegments(_)
SumSegments(log) == IF log = << >> THEN 0 ELSE log[1].segments + SumSegments(Tail(log))

\* C18: a file that does not decode, is all silence or has only intervals
\* shorter than MIN_DURATION gives no segment and is skipped; the other
\* files are still processed and their segments kept; without an I/O fault
\* the pipeline returns False only when no file gave a segment.
C18_FileFailureIsolated ==
  /\ \A i \in 1..Len(pipeline.log) :
       LET f == pipeline.log[i]
       IN (~f.file.decodable \/ AllSilent(f.file.buffer) \/ EveryIntervalShort(f.intervals))
            => f.segments = 0
  /\ ~pipeline.raised
  /\ pipeline.fault = "none" =>
       /\ Len(pipeline.all_segments) = SumSegments(pipeline.log)
       /\ pipeline.pc = "done" =>
            /\ Len(pipeline.log) = pipeline.n
            /\ pipeline.ret = FALSE <=> pipeline.all_segments = << >>

\* C19: once generate_file_lists has written its lists for N >= 1
\* segments, the train list holds all N in emission order and the
\* validation list is its first max(1, N div 10) entries.
C19_FileLists ==
  pipeline.lists.written =>
    LET N == Len(pipeline.all_segments)
        k == IF N \div 10 >= 1 THEN N \div 10 ELSE 1
    IN /\ N >= 1
       /\ pipeline.lists.ret = TRUE
       /\ pipeline.lists.train = [i \in 1..N |-> pipeline.all_segments[i].index]
       /\ Len(pipeline.lists.val) = k
       /\ \A i \in 1..k : pipeline.lists.val[i] = pipeline.lists.train[i]

\* twenty or more segments: the validation list has two entries or more
C19_Witness ==
  /\ pipeline.lists.written
  /\ Len(pipeline.lists.train) >= 20
  /\ Len(pipeline.lists.val) >= 2

---------------------------------------------------------------------------
(* Properties of the speaker profile (SpecProfile) *)

\* C20: the profile extract_from_directory returns has pitch_range.min <=
\* pitch_range.max, whatever the files' pitch estimates are, and also when
\* no frame is voiced or no file is analysed.
C20_PitchRangeOrdered ==
  /\ extractor.profile.pitch_range.min <= extractor.profile.pitch_range.max
  /\ (extractor.pc = "done" /\ extractor.pitch_mins = << >>)
       => extractor.profile.pitch_range = [min |-> 60, max |-> 300]

\* two files whose ranges do not meet
C20_Witness ==
  /\ extractor.pc = "done"
  /\ Len(extractor.pitch_mins) = 2
  /\ extractor.pitch_mins[1] > extractor.pitch_maxs[2]
  /\ extractor.profile.pitch_range.min = extractor.pitch_mins[2]
  /\ extractor.profile.pitch_range.max = extractor.pitch_maxs[1]

\* C21: a file whose analysis fails is skipped; extract_from_directory
\* returns a profile when at least one file was analysed, and reports a
\* failure, not a profile, when none was or the directory is empty.
C21_ZeroSuccessesFail ==
  extractor.pc = "done" =>
    /\ Len(extractor.pitch_mins) + extractor.skipped = extractor.n
    /\ Len(extractor.pitch_mins) >= 1 => extractor.result = "profile"
    /\ Len(extractor.pitch_mins) = 0 => extractor.result # "profile"

\* C23: the profile strategy is available whenever a speaker profile
\* exists, also on an object whose learned converter was initialised, and
\* when the learned converter raises or returns nothing the profile strategy
\* is the one attempted next.
C23_ProfileAfterLearned ==
  /\ (inference.constructed /\ inference.profile_on_disk)
        => Available(inference, "ProfileConverter")
  /\ (/\ conv.reached
      /\ inference.profile_on_disk
      /\ Len(conv.attempts) >= 1
      /\ conv.attempts[1].strategy = "LearnedConverter"
      /\ Failed(conv.attempts[1]))
        => /\ Len(conv.attempts) >= 2
           /\ conv.attempts[2].strategy = "ProfileConverter"

\* C24: the toolkit adapter hands back a converted buffer or fails; a
\* raising inference makes the attempt a failure that falls through to the
\* simulation, and the unconverted source is never saved as the toolkit's
\* result.
C24_ToolkitNeverReturnsSource ==
  /\ conv.saveCalled
       => ~(/\ conv.saved.by = "ExternalToolkitAdapter"
            /\ conv.saved.content = "source")
  /\ \A i \in 1..Len(conv.attempts) :
       (/\ conv.attempts[i].strategy = "ExternalToolkitAdapter"
        /\ Failed(conv.attempts[i]))
         => /\ i < Len(conv.attempts)
            /\ conv.attempts[i + 1].strategy = "SimulationConverter"

\* C28: an invocation rejected because a predecessor flag is false leaves
\* all five workflow flags exactly as they were before the call.
C28_RejectedKeepsFlags ==
  \A op \in GatedOps :
    (call.op = op /\ \E f \in Predecessors(op) : ~call.pre[f])
      => \A f \in Flags : workflow_state[f] = call.pre[f]

C28_Witness ==
  /\ call.op = "phase4"
  /\ call.ret = FALSE
  /\ call.invoked = << >>
  /\ call.pre["env_detected"]
  /\ call.pre["env_setup"]
  /\ ~call.pre["audio_processed"]
  /\ workflow_state = call.pre

\* the distinct files of a discovered list
DistinctFiles(fs) == { fs[i] : i \in 1..Len(fs) }

\* C29: batch_convert attempts each distinct input file exactly once: no
\* file is twice in the discovered list, successful plus failed equals the
\* number of distinct audio files, and no file's output is produced twice.
C29_EachFileOnce ==
  /\ batch.pc \in {"loop", "done"}
       => \A i, j \in 1..Len(batch.audio_files) :
            i # j => batch.audio_files[i] # batch.audio_files[j]
  /\ (batch.pc = "done" /\ batch.audio_files # << >>)
       => batch.successful + batch.failed = Cardinality(DistinctFiles(batch.audio_files))

\* C22: the scale of the loudness match lies in [0.3, 2.0] for every
\* target RMS and output RMS; a target RMS of 0 gives the scale 0.3; an
\* output RMS of 0 divides by nothing that is zero and the scale, and so
\* the scaled samples, are finite.
C22_LoudnessScaleBounded ==
  dsp.op = "gregg" =>
    /\ Finite(dsp.rms_scale)
    /\ ~Less(dsp.rms_scale, RMS_SCALE_MIN)
    /\ ~Less(RMS_SCALE_MAX, dsp.rms_scale)
    /\ dsp.gregg_rms = 0 => dsp.rms_scale = RMS_SCALE_MIN

C22_Witness ==
  /\ dsp.op = "gregg"
  /\ dsp.gregg_rms = 0
  /\ dsp.output_rms = 0
  /\ dsp.rms_scale = RMS_SCALE_MIN

\* the stages that shape formants, envelope or brightness
ShapingStages == {"formant", "envelope", "brightness"}

\* the stages that set the level of the whole buffer
LevelStages == {"loudness_match", "normalize", "limit"}

\* the stages that keep samples from clipping
ClippingStages == {"clip", "limit"}

\* C27: in every composed pipeline the pitch shift comes before any
\* formant, envelope or brightness stage, and the loudness match or level
\* normalisation is the last stage that changes energy, immediately before
\* the clipping stage.
C27_StageOrder ==
  LET st == dsp.stages
  IN \A i, j \in 1..Len(st) :
       /\ (i < j /\ st[j] = "pitch_shift") => st[i] \notin ShapingStages
       /\ (i < j /\ st[i] \in LevelStages) => st[j] \in ClippingStages
       /\ (st[j] = "clip") => (j > 1 /\ st[j - 1] \in LevelStages)

\* the output a request saves when no other request runs: the learned
\* converter's, or else that of the profile the constructor creates from
\* the training data, or else the toolkit's or the simulation's
Alone(q, r) ==
  Saved(IF q.use_neural_converter THEN "LearnedConverter"
        ELSE IF requests.wavs THEN "ProfileConverter"
        ELSE IF q.toolkit /\ q.saveOk THEN "ExternalToolkitAdapter"
        ELSE "SimulationConverter", r)

\* C26: convert_voice calls on distinct inputs and outputs share no file:
\* no file is written or read by two of them, and each saves the output it
\* saves when it runs alone.
C26_NoSharedFile ==
  /\ Cardinality(requests.profile_touched) <= 1
  /\ \A d \in OutDirs : Cardinality(requests.temp_touched[d]) <= 1
  /\ \A r \in Requests :
       requests.req[r].pc = "done" => requests.req[r].saved = Alone(requests.req[r], r)

\* C25: two runs of the pipeline over the same files, both without a
\* fault, take the files in the same order, so that every segment index
\* names the same source interval in both runs.
C25_RunsReproducible ==
  (/\ pipeline.pc = "done"
   /\ pipeline.ret
   /\ pipeline.clean
   /\ pipeline.prev.valid)
    => /\ FilesOf(pipeline) = pipeline.prev.files
       /\ Sources(pipeline) = pipeline.prev.sources

\* C30: after a successful run of the pipeline, a second or later run
\* included, the segment count of get_preprocessing_stats is the number of
\* entries of the train list that run wrote.
C30_StatsMatchTrainList ==
  (pipeline.pc = "done" /\ pipeline.ret /\ pipeline.lists.written)
    => get_preprocessing_stats(pipeline).segments = Len(pipeline.lists.train)

====
